---- MODULE Spec2Model ----
(***************************************************************************)
(* Model of simple_scraper.py: the WebScrapper class (page cache, page     *)
(* fetch, form replay, export POST, output file) and the CLI entry point.  *)
(*                                                                         *)
(* Encodings.  A Python value that may be None is a sequence of length at  *)
(* most one: <<>> is None and <<x>> is the value x.  A file is modelled    *)
(* the same way: <<>> is "no such file", <<c>> a file with contents c.     *)
(* A Python str is a sequence of one-character strings, so that            *)
(* str.lower() is computed character by character.  The bytes of an HTML   *)
(* page are a sequence of tokens (a whitespace byte, a run of text, the    *)
(* bytes of one <form> element); the bytes of an export response are a     *)
(* sequence of byte values.                                                *)
(***************************************************************************)
EXTENDS Integers, Sequences, FiniteSets, TLC

\* ------------------------------------------------------------------ bounds
MaxCalls == 2      \* operations performed in one behaviour
MaxPad == 1        \* whitespace bytes before / after the core of a page
MaxInputs == 2     \* <input> elements inside a form (payload specification)

\* ------------------------------------------------------------ Python values
None == <<>>
Some(x) == <<x>>
IsNone(o) == o = <<>>
Val(o) == o[1]

SeqsUpTo(S, n) == UNION {[1..k -> S] : k \in 0..n}

\* ------------------------------------------------------------------ strings
csv == <<"c", "s", "v">>
xml == <<"x", "m", "l">>
xls == <<"x", "l", "s">>
CSV == <<"C", "S", "V">>
Xls == <<"X", "l", "s">>
pdf == <<"p", "d", "f">>
EmptyStr == <<>>

SUPPORTED_FILE_TYPES == <<csv, xml, xls>>

\* the strings a caller may pass as an export type
ExportTypes == {csv, xml, xls, CSV, Xls, pdf, EmptyStr}

Range(f) == {f[i] : i \in DOMAIN f}

LowerChar(c) ==
  CASE c = "C" -> "c"
    [] c = "S" -> "s"
    [] c = "V" -> "v"
    [] c = "X" -> "x"
    [] c = "M" -> "m"
    [] c = "L" -> "l"
    [] c = "P" -> "p"
    [] c = "D" -> "d"
    [] c = "F" -> "f"
    [] OTHER -> c

\* str.lower()
Lower(s) == [i \in DOMAIN s |-> LowerChar(s[i])]

\* truth value of a str, a bytes or None in a Python condition
Truthy(o) == ~IsNone(o) /\ Len(Val(o)) > 0

EXPORT_FILE(t) == <<"d", "a", "t", "a", ".">> \o t

\* -------------------------------------------------------------- page bytes
FORM_ID == "_disspact_WAR_disspactportlet_exportForm"
OTHER_FORM_ID == "searchForm"
EXPORT_TYPE_FIELD == "_disspact_WAR_disspactportlet_exportType"

WS == [t |-> "ws", id |-> "", inputs |-> <<>>]
Txt == [t |-> "txt", id |-> "", inputs |-> <<>>]
FormTok(id, inputs) == [t |-> "form", id |-> id, inputs |-> inputs]
InputTok(name, value) == [name |-> name, value |-> value]

\* the attributes an <input> element may carry
InputNames == {None, Some(EXPORT_TYPE_FIELD), Some("q")}
InputValues == {None, Some(xml), Some(<<"1">>)}
InputElems == {InputTok(n, v) : n \in InputNames, v \in InputValues}

\* the export form as the site serves it: the export type defaults to xml
SiteInputs == <<InputTok(Some("q"), Some(<<"1">>)),
                InputTok(Some(EXPORT_TYPE_FIELD), Some(xml))>>

Pad(n) == [i \in 1..n |-> WS]

Cores == { <<>>,
           <<FormTok(FORM_ID, SiteInputs)>>,
           <<Txt, WS, FormTok(OTHER_FORM_ID, SiteInputs)>> }

\* bodies the site may answer a GET with
Pages == {Pad(l) \o c \o Pad(r) : l \in 0..MaxPad, r \in 0..MaxPad, c \in Cores}

\* pages holding the export form with any list of inputs
FormPages ==
  {<<FormTok(OTHER_FORM_ID, SiteInputs), FormTok(FORM_ID, ins)>> :
     ins \in SeqsUpTo(InputElems, MaxInputs)}

RECURSIVE lstrip(_)
lstrip(b) == IF Len(b) > 0 /\ Head(b) = WS THEN lstrip(Tail(b)) ELSE b

RECURSIVE rstrip(_)
rstrip(b) ==
  IF Len(b) > 0 /\ b[Len(b)] = WS THEN rstrip(SubSeq(b, 1, Len(b) - 1)) ELSE b

\* a trim of the leading whitespace only
strip_left(b) == lstrip(b)

\* bytes.strip()
strip(b) == rstrip(lstrip(b))

\* ------------------------------------------------------- export responses
\* bodies the site may answer the export POST with: empty, and one holding a
\* byte that is not valid text
ExportBodies == {<<>>, <<97, 255>>}

\* response.text: the content decoded with errors="replace"
Text(content) ==
  [i \in DOMAIN content |-> IF content[i] < 128 THEN content[i] ELSE 65533]

StrData(t) == [type |-> "str", val |-> t]
BytesData(b) == [type |-> "bytes", val |-> b]

\* ------------------------------------------------------------------- state
VARIABLES
  scraper,      \* the WebScrapper object in use: None or <<its fields>>
  cache,        \* the file main.html
  files,        \* the files data.*
  call,         \* the record of the last operation
  calls,        \* operations performed so far
  site_page,    \* the page the site serves
  site_export   \* the export the site produces

vars == <<scraper, cache, files, call, calls, site_page, site_export>>

\* ------------------------------------------------------ what the site answers
Response(status, content) == [kind |-> "response", status |-> status, content |-> content]
ConnectionError == [kind |-> "raise", status |-> 0, content |-> <<>>]

\* outcomes of session.get
GetOutcomes == {Response(200, site_page), Response(500, <<>>), ConnectionError}

\* outcomes of session.post
PostOutcomes == {Response(200, site_export), Response(500, <<>>), ConnectionError}

\* outcomes of opening a file for writing, and of writing to it
IOOutcomes == {"ok", "IOError"}

\* ------------------------------------------------------------- file system
DataFiles == {EXPORT_FILE(t) : t \in ExportTypes}
NoDataFiles == [f \in DataFiles |-> None]

\* ------------------------------------------------- the state of one execution
\* The fields of the WebScrapper object (cached, export_type, page), the files
\* (cache is main.html, files the data.* files) and the record of the running
\* call: ev the operations performed in order, gets and posts the outcomes of
\* the requests, parsed the argument handed to BeautifulSoup, data the payload
\* returned by _scrape_form_input_data, exc the exception being propagated.
NoExc == ""

Enter(obj, cache0, files0) ==
  [cached |-> obj.cached, export_type |-> obj.export_type, page |-> obj.page,
   cache |-> cache0, files |-> files0,
   ev |-> <<>>, gets |-> <<>>, posts |-> <<>>, parsed |-> None, data |-> None,
   exc |-> NoExc]

Log(s, e) == [s EXCEPT !.ev = Append(@, e)]
Raise(s, e) == [s EXCEPT !.exc = e]

\* a file operation fails
IOError(s) == Raise(Log(s, "IOError"), "IOError")

\* LOGGER.error in an except clause: the exception is swallowed
Swallow(s) == [Log(s, "error") EXCEPT !.exc = NoExc]

\* the statements after a call run only if the call raised nothing
Then(S, F(_)) == UNION {IF s.exc = NoExc THEN F(s) ELSE {s} : s \in S}

\* try: ... except Exception: LOGGER.error(...)
Try(S) == {IF s.exc = NoExc THEN s ELSE Swallow(s) : s \in S}

\* ----------------------------------------------------------------- get_page
\* session.get answered by g
get_page_with(s, g) ==
  LET s1 == [Log(s, "GET") EXCEPT !.gets = Append(@, g)]
  IN  IF g.kind = "raise" THEN Swallow(Raise(s1, "ConnectionError"))
      ELSE IF g.status = 200 THEN [s1 EXCEPT !.page = Some(g.content)]
      ELSE Log(s1, "error")

get_page(s) == {get_page_with(s, g) : g \in GetOutcomes}

\* ----------------------------------------------------------------- download
\* file.write(self.page) into the opened main.html
write_cache(s, io) ==
  IF io = "ok" THEN [Log(s, "write:main.html") EXCEPT !.cache = Some(Val(s.page))]
  ELSE IOError(s)

\* the body of "with open(filename, 'wb') as file", the file just created
download_fetch(s) ==
  Then(get_page(s),
       LAMBDA s2 : IF IsNone(s2.page) THEN {Raise(s2, "TypeError")}   \* len(None)
                   ELSE {write_cache(s2, io) : io \in IOOutcomes})

\* open(filename, "wb"): creates or truncates the file
open_cache(s, io) ==
  IF io = "ok" THEN [Log(s, "open:main.html") EXCEPT !.cache = Some(<<>>)]
  ELSE IOError(s)

download(s) ==
  IF ~IsNone(s.cache)
  THEN {[Log(s, "read:main.html") EXCEPT !.page = Some(strip(Val(s.cache)))]}
  ELSE Try(Then({open_cache(s, io) : io \in IOOutcomes}, download_fetch))

\* -------------------------------------------------- _scrape_form_input_data
\* a search that takes the first form whatever its id
find_any_form(page, form_id) ==
  LET hits == {i \in DOMAIN page : page[i].t = "form"}
  IN  IF hits = {} THEN None
      ELSE Some(page[CHOOSE i \in hits : \A j \in hits : i <= j])

\* soup.find(name="form", attrs={"id": form_id}): the first such form or None
find_form(page, form_id) ==
  LET hits == {i \in DOMAIN page : page[i].t = "form" /\ page[i].id = form_id}
  IN  IF hits = {} THEN None
      ELSE Some(page[CHOOSE i \in hits : \A j \in hits : i <= j])

Keys(d) == {d[i].k : i \in DOMAIN d}

\* dict.update({k: v}) on an insertion-ordered dict
update(d, k, v) ==
  IF k \in Keys(d)
  THEN [i \in DOMAIN d |-> IF d[i].k = k THEN [k |-> k, v |-> v] ELSE d[i]]
  ELSE Append(d, [k |-> k, v |-> v])

\* a loop body that keeps the HTML default of every input
scrape_item_default(data, item, export_type) == update(data, item.name, item.value)

\* one turn of the loop over the inputs
scrape_item(data, item, export_type) ==
  IF item.name = Some(EXPORT_TYPE_FIELD)
  THEN update(data, item.name, Some(export_type))
  ELSE update(data, item.name, item.value)

RECURSIVE scrape_inputs(_, _, _)
scrape_inputs(data, inputs, export_type) ==
  IF inputs = <<>> THEN data
  ELSE scrape_inputs(scrape_item(data, Head(inputs), export_type), Tail(inputs), export_type)

\* from BeautifulSoup(self.page, ...) to "return data"
parse_form(s) ==
  LET s1 == [Log(s, "parse") EXCEPT !.parsed = Some(s.page)]
  IN  IF IsNone(s.page) THEN Raise(s1, "TypeError")
      ELSE LET export_form == find_form(Val(s.page), FORM_ID)
           IN  IF IsNone(export_form) THEN Raise(s1, "AttributeError")
               ELSE [s1 EXCEPT !.data =
                       Some(scrape_inputs(<<>>, Val(export_form).inputs, s.export_type))]

_scrape_form_input_data(s) ==
  LET loaded == IF s.cached THEN download(s) ELSE {s}
      inMemory == Then(loaded, LAMBDA s1 : IF ~Truthy(s1.page) THEN get_page(s1) ELSE {s1})
  IN  {IF s2.exc = NoExc THEN parse_form(s2) ELSE s2 : s2 \in inMemory}

\* -------------------------------------------------- _validate_file_extension
\* a validation that logs the unknown type and goes on
_validate_log_only(s) ==
  IF Lower(s.export_type) \notin Range(SUPPORTED_FILE_TYPES) THEN Log(s, "error") ELSE s

_validate_file_extension(s) ==
  IF Lower(s.export_type) \notin Range(SUPPORTED_FILE_TYPES)
  THEN Raise(Log(s, "error"), "UnsupportedExportType")
  ELSE s

\* ------------------------------------------------------ export_data_to_file
\* a choice of mode that opens every output file as text
filemode_text(export_type) ==
  IF export_type \in {csv, xml, xls} THEN Some("w") ELSE None

\* the mode chosen for the output file; None when no branch assigns filemode
filemode(export_type) ==
  IF export_type \in {csv, xml} THEN Some("w")
  ELSE IF export_type = xls THEN Some("wb")
  ELSE None

\* open(datafile, filemode) and the write inside it
write_datafile(s, response, ioOpen, ioWrite) ==
  LET datafile == EXPORT_FILE(s.export_type)
      mode == filemode(s.export_type)
  IN  IF IsNone(mode) THEN Raise(s, "UnboundLocalError")
      ELSE IF ioOpen # "ok" THEN IOError(s)
      ELSE LET empty == IF Val(mode) = "w" THEN StrData(<<>>) ELSE BytesData(<<>>)
               s1 == [Log(s, "open:data") EXCEPT !.files[datafile] = Some(empty)]
               body == IF Val(mode) = "w" THEN StrData(Text(response.content))
                       ELSE BytesData(response.content)
           IN  IF ioWrite # "ok" THEN IOError(s1)
               ELSE [Log(s1, "write:data") EXCEPT !.files[datafile] = Some(body)]

\* session.post answered by p, and what follows it
post_with(s, p) ==
  LET s1 == [Log(s, "POST") EXCEPT !.posts = Append(@, [data |-> Val(s.data), res |-> p])]
  IN  IF p.kind = "raise" THEN {Swallow(Raise(s1, "ConnectionError"))}
      ELSE IF p.status = 200
      THEN IF IsNone(filemode(s1.export_type))
           THEN Try({write_datafile(s1, p, "ok", "ok")})
           ELSE Try({write_datafile(s1, p, io, "ok") : io \in IOOutcomes}
                    \cup {write_datafile(s1, p, "ok", "IOError")})
      ELSE {Log(s1, "error")}

export_data_to_file(s, export_type) ==
  LET s0 == IF Truthy(export_type) THEN [s EXCEPT !.export_type = Val(export_type)] ELSE s
      s1 == _validate_file_extension(s0)
  IN  Then(Then({s1}, _scrape_form_input_data),
           LAMBDA s2 : UNION {post_with(s2, p) : p \in PostOutcomes})

\* ----------------------------------------------------------------- __init__
NewScraper(cached, export_type) ==
  [cached |-> cached, export_type |-> export_type, page |-> None]

__init__(cached, export_type, cache0, files0) ==
  _validate_file_extension(Enter(NewScraper(cached, export_type), cache0, files0))

\* --------------------------------------------------------------- parse_args
\* the value of --filetype on the command line, None when the flag is missing;
\* the result is the exit status (None when parse_args returns) and the value
parse_args(argv) ==
  IF IsNone(argv) \/ Val(argv) \notin Range(SUPPORTED_FILE_TYPES)
  THEN [exit |-> Some(2), filetype |-> None]            \* parser.parse_args()
  ELSE IF Val(argv) \notin Range(SUPPORTED_FILE_TYPES)
  THEN [exit |-> Some(1), filetype |-> None]            \* sys.exit(1)
  ELSE [exit |-> None, filetype |-> argv]

Fields(s) == [cached |-> s.cached, export_type |-> s.export_type, page |-> s.page]

CallRecord(op, arg, s, exit) ==
  [op |-> op, arg |-> arg, cached |-> s.cached, export_type |-> s.export_type,
   cache0 |-> cache, files0 |-> files,
   ev |-> s.ev, gets |-> s.gets, posts |-> s.posts, parsed |-> s.parsed,
   data |-> s.data, exc |-> s.exc, exit |-> exit]

\* the operation ends in execution state s
Return(op, arg, s, exit) ==
  /\ cache' = s.cache
  /\ files' = s.files
  /\ call' = CallRecord(op, arg, s, exit)
  /\ calls' = calls + 1
  /\ UNCHANGED <<site_page, site_export>>

Init ==
  /\ site_page \in Pages
  /\ site_export \in ExportBodies
  /\ scraper = None
  /\ cache \in {None, Some(site_page)}
  /\ files = NoDataFiles
  /\ call = [op |-> "none", arg |-> None, cached |-> FALSE, export_type |-> EmptyStr,
             cache0 |-> cache, files0 |-> files,
             ev |-> <<>>, gets |-> <<>>, posts |-> <<>>, parsed |-> None,
             data |-> None, exc |-> NoExc, exit |-> None]
  /\ calls = 0

\* scraper = WebScrapper(cached, export_type)
Construct(cached, export_type) ==
  /\ calls < MaxCalls
  /\ LET s == __init__(cached, export_type, cache, files)
     IN  /\ scraper' = IF s.exc = NoExc THEN Some(Fields(s)) ELSE scraper
         /\ Return("__init__", Some(export_type), s, None)

\* scraper.export_data_to_file(export_type)
Export(export_type) ==
  /\ calls < MaxCalls
  /\ ~IsNone(scraper)
  /\ \E s \in export_data_to_file(Enter(Val(scraper), cache, files), export_type) :
       /\ scraper' = Some(Fields(s))
       /\ Return("export_data_to_file", export_type, s, None)

\* scraper.download()
Download ==
  /\ calls < MaxCalls
  /\ ~IsNone(scraper)
  /\ \E s \in download(Enter(Val(scraper), cache, files)) :
       /\ scraper' = Some(Fields(s))
       /\ Return("download", None, s, None)

\* python simple_scraper.py --filetype argv: the process runs and ends
Main(argv) ==
  /\ calls < MaxCalls
  /\ scraper' = None
  /\ LET parsed == parse_args(argv)
     IN  IF ~IsNone(parsed.exit)
         THEN Return("main", argv, Enter(NewScraper(FALSE, EmptyStr), cache, files), parsed.exit)
         ELSE \E s \in Then({__init__(FALSE, Val(parsed.filetype), cache, files)},
                            LAMBDA s1 : export_data_to_file(s1, None)) :
                Return("main", argv, s, Some(IF s.exc = NoExc THEN 0 ELSE 1))

ExportArgs == {None} \cup {Some(t) : t \in ExportTypes}

Next ==
  \/ \E cached \in BOOLEAN, t \in ExportTypes : Construct(cached, t)
  \/ \E a \in ExportArgs : Export(a)
  \/ Download
  \/ \E a \in ExportArgs : Main(a)

Spec == Init /\ [][Next]_vars

\* the payload function applied to pages holding the export form with any inputs:
\* the scraper has the page in memory and one export is made
InitPayload ==
  /\ site_page \in FormPages
  /\ site_export = <<97, 255>>
  /\ scraper \in {Some([cached |-> FALSE, export_type |-> t, page |-> Some(site_page)]) :
                    t \in Range(SUPPORTED_FILE_TYPES)}
  /\ cache = None
  /\ files = NoDataFiles
  /\ call = [op |-> "none", arg |-> None, cached |-> FALSE, export_type |-> EmptyStr,
             cache0 |-> cache, files0 |-> files,
             ev |-> <<>>, gets |-> <<>>, posts |-> <<>>, parsed |-> None,
             data |-> None, exc |-> NoExc, exit |-> None]
  /\ calls = MaxCalls - 1

NextPayload == \E a \in ExportArgs : Export(a)

SpecPayload == InitPayload /\ [][NextPayload]_vars

\* ============================================================== properties
Supported == Range(SUPPORTED_FILE_TYPES)
Did(e) == \E i \in DOMAIN call.ev : call.ev[i] = e
IsExport == call.op = "export_data_to_file"
IsExportOrMain == call.op \in {"export_data_to_file", "main"}
Not200(r) == r.kind = "response" /\ r.status # 200
Is200(r) == r.kind = "response" /\ r.status = 200
LastGet == call.gets[Len(call.gets)]
LastPost == call.posts[Len(call.posts)].res
NoNetwork == call.gets = <<>> /\ call.posts = <<>> /\ ~Did("GET") /\ ~Did("POST")
NoDataFileWritten == ~Did("open:data") /\ ~Did("write:data") /\ files = call.files0

\* C1: an export of a supported format in which the page GET, or the export
\* POST, returns a non-200 status returns normally, logs an error and writes no
\* output file.
C1_NonOkStatusIsLogged ==
  (/\ IsExport
   /\ call.export_type \in Supported
   /\ \/ call.gets # <<>> /\ Not200(LastGet)
      \/ call.posts # <<>> /\ Not200(LastPost))
  => (call.exc = NoExc /\ Did("error") /\ NoDataFileWritten)

\* C2 as stated: every string outside {csv, xml, xls}, given to the constructor
\* or to export_data_to_file, raises UnsupportedExportType with no request made
\* and no file written; an unsupported --filetype exits non-zero with no request.
C2_OutsideSetRejected ==
  /\ (/\ call.op \in {"__init__", "export_data_to_file"}
      /\ ~IsNone(call.arg)
      /\ Val(call.arg) \notin Supported)
     => (call.exc = "UnsupportedExportType" /\ NoNetwork /\ NoDataFileWritten)
  /\ (call.op = "main" /\ (IsNone(call.arg) \/ Val(call.arg) \notin Supported))
     => (~IsNone(call.exit) /\ Val(call.exit) # 0 /\ NoNetwork /\ NoDataFileWritten)

\* C2 amended: a string whose lower-cased form is outside {csv, xml, xls}, given
\* to the constructor, or given non-empty to export_data_to_file, raises
\* UnsupportedExportType with no GET, no POST and no file written; a --filetype
\* value outside {csv, xml, xls} exits non-zero with no request made.
C2_UnsupportedRejected ==
  /\ (/\ \/ call.op = "__init__"
         \/ call.op = "export_data_to_file" /\ Truthy(call.arg)
      /\ ~IsNone(call.arg)
      /\ \A i \in DOMAIN SUPPORTED_FILE_TYPES : Lower(Val(call.arg)) # SUPPORTED_FILE_TYPES[i])
     => (/\ call.exc = "UnsupportedExportType"
         /\ NoNetwork
         /\ NoDataFileWritten
         /\ cache = call.cache0)
  /\ (call.op = "main" /\ (IsNone(call.arg) \/ Val(call.arg) \notin Supported))
     => (/\ ~IsNone(call.exit)
         /\ Val(call.exit) # 0
         /\ NoNetwork
         /\ NoDataFileWritten
         /\ cache = call.cache0)

\* a scraper built for a supported type is asked to export "pdf" and refuses
C2_Witness ==
  /\ IsExport
  /\ call.arg = Some(pdf)
  /\ call.exc = "UnsupportedExportType"
  /\ ~IsNone(scraper)

\* C3: when the POST returns 200 and the write succeeds, data.<format> holds the
\* response body: the decoded text, written in text mode, for csv and xml, the
\* raw bytes, written in binary mode, for xls; and an output file is touched only
\* in a call whose POST returned 200.
C3_OutputFile ==
  IsExportOrMain =>
    /\ (Did("open:data") \/ Did("write:data") \/ files # call.files0)
         => (call.posts # <<>> /\ Is200(LastPost))
    /\ (/\ call.export_type \in Supported
        /\ call.posts # <<>>
        /\ Is200(LastPost)
        /\ ~Did("IOError"))
         => /\ Did("write:data")
            /\ files[EXPORT_FILE(call.export_type)] =
                 IF call.export_type = xls
                 THEN Some([type |-> "bytes", val |-> LastPost.content])
                 ELSE Some([type |-> "str", val |-> Text(LastPost.content)])
            /\ \A f \in DataFiles :
                 f # EXPORT_FILE(call.export_type) => files[f] = call.files0[f]

\* an xls export whose body holds a byte that is not valid text has been written
C3_Witness ==
  /\ IsExport
  /\ call.export_type = xls
  /\ Did("write:data")
  /\ files[EXPORT_FILE(xls)] = Some([type |-> "bytes", val |-> <<97, 255>>])

\* the inputs of the export form of the page handed to the parser
ParsedPage == Val(Val(call.parsed))
FormIndex ==
  CHOOSE i \in DOMAIN ParsedPage :
    /\ ParsedPage[i].t = "form" /\ ParsedPage[i].id = FORM_ID
    /\ \A j \in 1..(i - 1) : ~(ParsedPage[j].t = "form" /\ ParsedPage[j].id = FORM_ID)
FormInputs == ParsedPage[FormIndex].inputs
LastWithName(n) ==
  CHOOSE i \in DOMAIN FormInputs :
    FormInputs[i].name = n /\ \A j \in DOMAIN FormInputs : FormInputs[j].name = n => j <= i

IsTrimOf(b, a) ==
  /\ \E l, r \in 0..Len(a) :
       /\ l + r <= Len(a)
       /\ b = SubSeq(a, l + 1, Len(a) - r)
       /\ \A i \in 1..l : a[i] = WS
       /\ \A i \in (Len(a) - r + 1)..Len(a) : a[i] = WS
  /\ b # <<>> => (b[1] # WS /\ b[Len(b)] # WS)

\* C5: download() with main.html present makes no request, leaves the file as
\* it is and sets the page to the file's contents with leading and trailing
\* whitespace trimmed.
C5_CacheHit ==
  (call.op = "download" /\ ~IsNone(call.cache0)) =>
    /\ NoNetwork
    /\ cache = call.cache0
    /\ ~IsNone(scraper)
    /\ ~IsNone(Val(scraper).page)
    /\ IsTrimOf(Val(Val(scraper).page), Val(call.cache0))

\* download() has read a cache file with whitespace at both ends and inside
C5_Witness ==
  /\ call.op = "download"
  /\ ~IsNone(call.cache0)
  /\ Len(Val(call.cache0)) >= 5
  /\ Val(call.cache0)[1] = WS
  /\ Val(call.cache0)[Len(Val(call.cache0))] = WS
  /\ Len(Val(Val(scraper).page)) = 3

\* position of the first occurrence of e in the record of the call, 0 if none
FirstIndex(e) ==
  IF Did(e) THEN CHOOSE i \in DOMAIN call.ev :
                   call.ev[i] = e /\ \A j \in 1..(i - 1) : call.ev[j] # e
  ELSE 0

\* C6: with caching enabled and no main.html, and no file operation failing,
\* loading the page issues exactly one GET whatever its outcome, and on a 200
\* response the bytes are in main.html before the page is parsed.
C6_OneGetOnCacheMiss ==
  (IsExport /\ call.cached /\ IsNone(call.cache0) /\ Did("open:main.html") /\ ~Did("IOError"))
  => /\ Len(call.gets) = 1
     /\ Is200(call.gets[1]) =>
          /\ Did("write:main.html")
          /\ FirstIndex("write:main.html") < FirstIndex("parse")
          /\ cache = Some(call.gets[1].content)

\* C7: with caching enabled and main.html present, whatever it holds, the
\* cached copy is the page parsed and no GET is issued in that export.
C7_CachedCopyUsed ==
  (IsExport /\ call.cached /\ ~IsNone(call.cache0) /\ call.export_type \in Supported)
  => /\ call.gets = <<>>
     /\ ~Did("GET")
     /\ call.parsed = Some(Some(strip(Val(call.cache0))))

FormAbsent(page) ==
  \A i \in DOMAIN page : ~(page[i].t = "form" /\ page[i].id = FORM_ID)

\* C8: when the page obtained does not hold the export form, building the
\* payload fails with an error, no POST is issued and no output file is written.
C8_FormAbsent ==
  (/\ IsExportOrMain
   /\ ~IsNone(call.parsed)
   /\ ~IsNone(Val(call.parsed))
   /\ FormAbsent(ParsedPage))
  => /\ call.exc = "AttributeError"
     /\ IsNone(call.data)
     /\ call.posts = <<>>
     /\ ~Did("POST")
     /\ NoDataFileWritten

\* an export has parsed a page whose only form is another one
C8_Witness ==
  /\ IsExport
  /\ ~IsNone(call.parsed)
  /\ ~IsNone(Val(call.parsed))
  /\ FormAbsent(ParsedPage)
  /\ \E i \in DOMAIN ParsedPage : ParsedPage[i].t = "form"
  /\ call.exc = "AttributeError"

\* C9: a download() that starts with no main.html leaves one behind only if a
\* GET returned 200, and then holding exactly the body of that response.
C9_CacheOnlyFrom200 ==
  (call.op = "download" /\ IsNone(call.cache0) /\ ~IsNone(cache))
  => \E i \in DOMAIN call.gets : Is200(call.gets[i]) /\ cache = Some(call.gets[i].content)

\* C10: every export type the validation accepts, with the GET and the POST
\* returning 200, the form present and no file operation failing, gets its
\* output file written with the response body.
C10_AcceptedTypeIsWritten ==
  (/\ IsExport
   /\ call.exc = NoExc
   /\ Lower(call.export_type) \in Supported
   /\ call.posts # <<>>
   /\ Is200(LastPost)
   /\ ~Did("IOError"))
  => /\ Did("write:data")
     /\ ~IsNone(files[EXPORT_FILE(call.export_type)])

====
